---- MODULE Spec2Model ----
(***************************************************************************)
(* SQLite Playground: the multi-statement SQL executor (db_manager.py)     *)
(* and the upload ingestion pipeline (helper.py, called from main.py).     *)
(*                                                                         *)
(* Spec        - repeated calls of sql_executor on one database file.      *)
(* SpecIngest  - one run of the upload handler of main() / of              *)
(*               process_uploaded_files on a data directory.               *)
(***************************************************************************)
EXTENDS Integers, Sequences, FiniteSets, TLC

VARIABLES db, last, data, ing

vars == <<db, last, data, ing>>

(***************************************************************************)
(* Bounds of the model.                                                    *)
(***************************************************************************)
MaxLen == 3

MaxVal == 3

MaxFiles == 3

MaxRows == 1

Vals == 1..MaxVal

(***************************************************************************)
(* Part 1.  The embedded engine as sql_executor sees it.                   *)
(* One table t(x INTEGER PRIMARY KEY); a database is the pair              *)
(* (does t exist, the set of its rows).                                    *)
(***************************************************************************)
NoTable == [tbl |-> FALSE, rows |-> {}]

DB == {NoTable} \cup [tbl : {TRUE}, rows : SUBSET Vals]

\* The statements a segment of raw_code can hold: kw is the leading keyword as
\* typed, sub the verb that follows a WITH clause, arg the inserted value.
Stmt(kw, sub, arg) == [kw |-> kw, sub |-> sub, arg |-> arg]

Statements ==
    {Stmt("INSERT", "", v) : v \in Vals}
    \cup {Stmt("WITH", "INSERT", v) : v \in Vals}
    \cup {Stmt("DELETE", "", 0), Stmt("CREATE", "", 0), Stmt("DROP", "", 0),
          Stmt("SELECT", "", 0), Stmt("select", "", 0), Stmt("WITH", "SELECT", 0),
          Stmt("BAD", "", 0), Stmt("", "", 0)}

\* raw_code.strip().split(';'): raw_code is given by its segments, in order.
Batches == UNION {[1..n -> Statements] : n \in 0..MaxLen}

\* str.upper() on the leading keyword.
Upper(kw) == IF kw = "select" THEN "SELECT" ELSE kw

\* `not statement.strip()`: the segment is empty or whitespace only.
IsBlank(s) == s.kw = ""

\* statement.strip().upper().startswith(('SELECT', 'WITH'))
\* Variant: the prefix test without upper().
MutIsQueryShapedCaseSensitive(s) == s.kw \in {"SELECT", "WITH"}

IsQueryShaped(s) == Upper(s.kw) \in {"SELECT", "WITH"}

\* The verb the engine runs: the keyword, or what follows the WITH clause.
Verb(s) == IF Upper(s.kw) = "WITH" THEN s.sub ELSE Upper(s.kw)

\* Python's sqlite3 opens a transaction implicitly only before a statement whose
\* first keyword is INSERT, UPDATE, DELETE or REPLACE.
IsDml(s) == Upper(s.kw) \in {"INSERT", "UPDATE", "DELETE", "REPLACE"}

\* The exception c.execute raises for statement s on database d, or "none".
EngineError(d, s) ==
    CASE Verb(s) = "BAD" -> [cls |-> "OperationalError", text |-> "syntax error"]
      [] Verb(s) = "CREATE" /\ d.tbl ->
            [cls |-> "OperationalError", text |-> "table t already exists"]
      [] Verb(s) \in {"INSERT", "DELETE", "DROP", "SELECT"} /\ ~d.tbl ->
            [cls |-> "OperationalError", text |-> "no such table: t"]
      [] Verb(s) = "INSERT" /\ d.tbl /\ s.arg \in d.rows ->
            [cls |-> "IntegrityError", text |-> "UNIQUE constraint failed: t.x"]
      [] OTHER -> [cls |-> "none", text |-> ""]

\* The database after statement s ran on d without error.
Apply(d, s) ==
    CASE Verb(s) = "INSERT" -> [d EXCEPT !.rows = @ \cup {s.arg}]
      [] Verb(s) = "DELETE" -> [d EXCEPT !.rows = {}]
      [] Verb(s) = "CREATE" -> [tbl |-> TRUE, rows |-> {}]
      [] Verb(s) = "DROP" -> NoTable
      [] OTHER -> d

\* c.description after the statement is a list for a statement that returns
\* rows and None for any other.
HasDescription(s) == Verb(s) = "SELECT"

(***************************************************************************)
(* The connection of one call: disk is the committed file, work what the   *)
(* connection sees, inTxn whether a transaction is open.                   *)
(***************************************************************************)
Connect(d) == [disk |-> d, work |-> d, inTxn |-> FALSE]

\* Variant: a commit that writes nothing to the file.
MutCommitNothing(conn) == [conn EXCEPT !.inTxn = FALSE]

Commit(conn) == [conn EXCEPT !.disk = conn.work, !.inTxn = FALSE]

Rollback(conn) == [conn EXCEPT !.work = conn.disk, !.inTxn = FALSE]

\* conn.close(): what was not committed is lost; the file keeps disk.
\* Variant: a close that commits the open transaction.
MutCloseCommits(conn) == conn.work

Close(conn) == conn.disk

\* c.execute(statement.strip()) : implicit BEGIN, then the engine; outside a
\* transaction the engine commits each statement by itself.
Execute(conn, s) ==
    LET c1 == IF IsDml(s) /\ ~conn.inTxn THEN [conn EXCEPT !.inTxn = TRUE] ELSE conn
        err == EngineError(c1.work, s)
        w == Apply(c1.work, s)
    IN IF err.cls # "none"
       THEN [conn |-> c1, err |-> err]
       ELSE [conn |-> [c1 EXCEPT !.work = w,
                                 !.disk = IF c1.inTxn THEN c1.disk ELSE w],
             err |-> err]

(***************************************************************************)
(* ExecutionResult.                                                        *)
(***************************************************************************)
RowsResult(rows, cols) ==
    [kind |-> "rows", rows |-> rows, cols |-> cols, prefix |-> "", text |-> ""]

OkResult ==
    [kind |-> "ok", rows |-> {}, cols |-> <<>>,
     prefix |-> "Executed non-SELECT statement.", text |-> ""]

ErrorResult(prefix, text) ==
    [kind |-> "error", rows |-> {}, cols |-> <<>>, prefix |-> prefix, text |-> text]

NoResult == [kind |-> "none", rows |-> {}, cols |-> <<>>, prefix |-> "", text |-> ""]

\* except sqlite3.OperationalError / except Exception
HandlerPrefix(cls) ==
    IF cls = "OperationalError" THEN "SQL Error: " ELSE "An error occurred: "

\* The two except clauses: roll back, return the error result.
Handle(conn, err, executed, failedAt) ==
    [conn |-> Rollback(conn),
     result |-> ErrorResult(HandlerPrefix(err.cls), err.text),
     executed |-> executed, failedAt |-> failedAt, exc |-> err.cls,
     commits |-> 0, rollbacks |-> 1]

\* The for loop of sql_executor from segment i on, with the statements handed
\* to c.execute so far.
RECURSIVE Loop(_, _, _, _)
Loop(conn, stmts, i, executed) ==
    IF i > Len(stmts)
    THEN [conn |-> Commit(conn), result |-> OkResult,
          executed |-> executed, failedAt |-> 0, exc |-> "none",
          commits |-> 1, rollbacks |-> 0]
    ELSE IF IsBlank(stmts[i])
    THEN Loop(conn, stmts, i + 1, executed)
    ELSE LET r == Execute(conn, stmts[i])
             ex == Append(executed, i)
         IN IF r.err.cls # "none"
            THEN Handle(r.conn, r.err, ex, i)
            ELSE IF IsQueryShaped(stmts[i])
            THEN IF HasDescription(stmts[i])
                 THEN [conn |-> r.conn,
                       result |-> RowsResult(r.conn.work.rows, <<"x">>),
                       executed |-> ex, failedAt |-> 0, exc |-> "none",
                       commits |-> 0, rollbacks |-> 0]
                 ELSE Handle(r.conn,
                             [cls |-> "TypeError",
                              text |-> "'NoneType' object is not iterable"],
                             ex, i)
            ELSE Loop(r.conn, stmts, i + 1, ex)

\* sqlite3.connect(os.path.join('data', db_name)) succeeds.
DbNames == {"db.sqlite", "nodir/db.sqlite"}

CanOpen(db_name) == db_name = "db.sqlite"

NoCall ==
    [called |-> FALSE, raw |-> <<>>, db_name |-> "db.sqlite", before |-> NoTable,
     raised |-> "none", result |-> NoResult, executed |-> <<>>, failedAt |-> 0,
     exc |-> "none", commits |-> 0, rollbacks |-> 0]

\* sql_executor(raw_code, db_name)
SqlExecutor(raw_code, db_name) ==
    IF ~CanOpen(db_name)
    THEN /\ last' = [NoCall EXCEPT !.called = TRUE, !.raw = raw_code,
                                   !.db_name = db_name, !.before = db,
                                   !.raised = "OperationalError"]
         /\ UNCHANGED <<db, data, ing>>
    ELSE LET out == Loop(Connect(db), raw_code, 1, <<>>)
         IN /\ db' = Close(out.conn)
            /\ last' = [called |-> TRUE, raw |-> raw_code, db_name |-> db_name,
                        before |-> db, raised |-> "none", result |-> out.result,
                        executed |-> out.executed, failedAt |-> out.failedAt,
                        exc |-> out.exc, commits |-> out.commits, rollbacks |-> out.rollbacks]
            /\ UNCHANGED <<data, ing>>

\* home_page: the Execute button of the query form runs sql_executor once per
\* script run; query_results and column_names live until the run ends.
Call ==
    /\ ~last.called
    /\ \E raw_code \in Batches, db_name \in DbNames : SqlExecutor(raw_code, db_name)

\* home_page shows the result (or Streamlit the traceback of an exception that
\* escaped) and the script run ends.
Render ==
    /\ last.called
    /\ last' = NoCall
    /\ UNCHANGED <<db, data, ing>>



(***************************************************************************)
(* Part 2.  The ingestion pipeline (helper.py) and its caller in main().   *)
(* A name is the sequence of its characters, the extension being the last  *)
(* element; a frame is its column names and its number of rows; a database *)
(* is a map from table names to frames; the data directory is a map from   *)
(* file names to databases.                                                *)
(***************************************************************************)
EmptyMap == [x \in {} |-> 0]

Put(f, k, v) == [x \in DOMAIN f \cup {k} |-> IF x = k THEN v ELSE f[x]]

Frame(cols, nrows) == [cols |-> cols, nrows |-> nrows]

\* name.replace('-', '_')
Normalize(name) == [i \in DOMAIN name |-> IF name[i] = "-" THEN "_" ELSE name[i]]

\* os.path.splitext(name)[0]
Splitext(name) == SubSeq(name, 1, Len(name) - 1)

\* name.endswith(exts)
EndsWith(name, exts) == Len(name) > 0 /\ name[Len(name)] \in exts

\* data/{db_name}.sqlite
DbFile(db_name) == db_name \o <<".sqlite">>

TablesOf(dir, file) == IF file \in DOMAIN dir THEN dir[file] ELSE EmptyMap

\* df.to_sql(name=table_name, con=conn, if_exists="replace", index=False) on
\* the connection sqlite3.connect(f"data/{db_name}.sqlite")
\* Variant: if_exists="append".
MutSaveAppends(dir, df, db_name, table_name) ==
    LET old == TablesOf(dir, DbFile(db_name))
        new == IF table_name \in DOMAIN old
               THEN Frame(old[table_name].cols, old[table_name].nrows + df.nrows)
               ELSE df
    IN Put(dir, DbFile(db_name), Put(old, table_name, new))

SaveDataframeToSqlite(dir, df, db_name, table_name) ==
    Put(dir, DbFile(db_name), Put(TablesOf(dir, DbFile(db_name)), table_name, df))

\* save_uploaded_file: the bytes go to data/<name> as they are.
SaveUploadedFile(dir, f) == Put(dir, f.name, f.db)

(***************************************************************************)
(* Uploaded files.                                                         *)
(***************************************************************************)
Stems == {<<"s">>, <<"r", "-", "t">>}

Headers == {<<<<"c">>>>, <<<<"c", "-", "d">>, <<"e">>>>}

Sheet(name, cols, nrows) == [name |-> name, cols |-> cols, nrows |-> nrows]

SheetP == Sheet(<<"p">>, <<<<"c">>>>, 1)

SheetU == Sheet(<<"u">>, <<<<"c">>, <<"e">>>>, 0)

SheetQR == Sheet(<<"q", "-", "r">>, <<<<"e">>>>, 1)

\* One sheet, two sheets, and a sheet with a hyphen in its name alone, after
\* and before another sheet.
Workbooks ==
    {<<SheetP>>, <<SheetP, SheetU>>, <<SheetQR>>, <<SheetP, SheetQR>>,
     <<SheetQR, SheetP>>}

Prebuilt == Put(EmptyMap, <<"z">>, Frame(<<<<"k">>>>, 1))

File(name, bad, cols, nrows, sheets, dbc) ==
    [name |-> name, bad |-> bad, cols |-> cols, nrows |-> nrows,
     sheets |-> sheets, db |-> dbc]

CsvFiles ==
    {File(st \o <<".csv">>, TRUE, <<>>, 0, <<>>, EmptyMap) : st \in Stems}
    \cup {File(st \o <<".csv">>, FALSE, h, n, <<>>, EmptyMap) :
             st \in Stems, h \in Headers, n \in 1..MaxRows}

XlsxFiles ==
    {File(<<"s", ".xlsx">>, TRUE, <<>>, 0, <<>>, EmptyMap)}
    \cup {File(<<"s", ".xlsx">>, FALSE, <<>>, 0, w, EmptyMap) : w \in Workbooks}

SqliteFiles == {File(<<"s", ".sqlite">>, FALSE, <<>>, 0, <<>>, Prebuilt)}

Files == CsvFiles \cup XlsxFiles \cup SqliteFiles

FileBatches == UNION {[1..n -> Files] : n \in 1..MaxFiles}

\* pd.read_csv(uploaded_file)
ReadCsv(f) == [ok |-> ~f.bad, df |-> Frame(f.cols, f.nrows)]

\* pd.ExcelFile(uploaded_file) and xls.sheet_names
ExcelFile(f) == [ok |-> ~f.bad, sheet_names |-> [i \in DOMAIN f.sheets |-> f.sheets[i].name]]

\* pd.read_excel(xls, sheet_name=name): the sheet of that name, or ValueError.
ReadExcelByName(f, name) ==
    IF \E i \in DOMAIN f.sheets : f.sheets[i].name = name
    THEN LET sh == f.sheets[CHOOSE i \in DOMAIN f.sheets : f.sheets[i].name = name]
         IN [ok |-> TRUE, df |-> Frame(sh.cols, sh.nrows)]
    ELSE [ok |-> FALSE, df |-> Frame(<<>>, 0)]

\* pd.read_excel(uploaded_file): the first sheet.
ReadExcelFirst(f) ==
    IF f.bad \/ Len(f.sheets) = 0
    THEN [ok |-> FALSE, df |-> Frame(<<>>, 0)]
    ELSE [ok |-> TRUE, df |-> Frame(f.sheets[1].cols, f.sheets[1].nrows)]

\* The name read_excel is asked for in the merge branch.
LookupName(sheet_name) == Normalize(sheet_name)

\* The loop over xls.sheet_names in the merge branch, from sheet i on.
RECURSIVE MergeSheets(_, _, _, _, _, _)
MergeSheets(dir, f, names, i, db_name, saved) ==
    IF i > Len(names)
    THEN [data |-> dir, ok |-> TRUE, saved |-> saved]
    ELSE LET sheet_name == Normalize(names[i])
             r == ReadExcelByName(f, LookupName(names[i]))
         IN IF ~r.ok
            THEN [data |-> dir, ok |-> FALSE, saved |-> saved]
            ELSE MergeSheets(SaveDataframeToSqlite(dir, r.df, db_name, sheet_name),
                             f, names, i + 1, db_name, saved + 1)

\* The body of the try block of the merge branch for one file.
MergeFile(dir, f, db_name) ==
    IF EndsWith(f.name, {".xls", ".xlsx"})
    THEN LET xls == ExcelFile(f)
         IN IF ~xls.ok
            THEN [data |-> dir, ok |-> FALSE, saved |-> 0]
            ELSE MergeSheets(dir, f, xls.sheet_names, 1, db_name, 0)
    ELSE IF EndsWith(f.name, {".csv"})
    THEN LET r == ReadCsv(f)
         IN IF ~r.ok
            THEN [data |-> dir, ok |-> FALSE, saved |-> 0]
            ELSE [data |-> SaveDataframeToSqlite(dir, r.df, db_name,
                                                 Normalize(Splitext(f.name))),
                  ok |-> TRUE, saved |-> 1]
    ELSE IF EndsWith(f.name, {".sqlite"})
    THEN [data |-> SaveUploadedFile(dir, f), ok |-> TRUE, saved |-> 0]
    ELSE [data |-> dir, ok |-> TRUE, saved |-> 0]

\* The body of the try block of the separate branch for one file.
SeparateFile(dir, f) ==
    IF EndsWith(f.name, {".sqlite"})
    THEN [data |-> SaveUploadedFile(dir, f), ok |-> TRUE, saved |-> 0]
    ELSE LET db_name == Normalize(Splitext(f.name))
             r == IF ~EndsWith(f.name, {".xls", ".xlsx"})
                  THEN ReadCsv(f) ELSE ReadExcelFirst(f)
         IN IF ~r.ok
            THEN [data |-> dir, ok |-> FALSE, saved |-> 0]
            ELSE [data |-> SaveDataframeToSqlite(dir, r.df, db_name,
                                                 <<"table_name">>),
                  ok |-> TRUE, saved |-> 1]

\* try/except inside the for loop: the loop goes on with the next file whether
\* or not this one raised.
\* Variant: try/except around the loop, so the first failure ends it.
MutNextFileStopsOnError(i, ok, n) == IF ok THEN i + 1 ELSE n + 1

NextFile(i, ok, n) == i + 1

\* st.success / st.error for file i, with the directory after it.
Entry(r) ==
    [kind |-> IF r.ok THEN "success" ELSE "error", saved |-> r.saved, after |-> r.data]

RECURSIVE MergeLoop(_, _, _, _, _)
MergeLoop(dir, files, i, db_name, log) ==
    IF i > Len(files)
    THEN [data |-> dir, log |-> log]
    ELSE LET r == MergeFile(dir, files[i], db_name)
         IN MergeLoop(r.data, files, NextFile(i, r.ok, Len(files)), db_name,
                      Append(log, Entry(r)))

RECURSIVE SeparateLoop(_, _, _, _)
SeparateLoop(dir, files, i, log) ==
    IF i > Len(files)
    THEN [data |-> dir, log |-> log]
    ELSE LET r == SeparateFile(dir, files[i])
         IN SeparateLoop(r.data, files, NextFile(i, r.ok, Len(files)),
                         Append(log, Entry(r)))

\* The database name of the merge branch: from the first uploaded file.
MergeDbName(files) == Normalize(Splitext(files[1].name))

(***************************************************************************)
(* Python values and their truth value, for `if same_db:`.                 *)
(***************************************************************************)
PyBool(b) == [t |-> "bool", b |-> b, s |-> ""]

PyStr(str) == [t |-> "str", b |-> FALSE, s |-> str]

Truthy(v) == IF v.t = "bool" THEN v.b ELSE v.s # ""

\* The branch process_uploaded_files takes.
Branch(same_db) == IF Truthy(same_db) THEN "merge" ELSE "separate"

Run(dir, files, branch) ==
    IF branch = "merge"
    THEN MergeLoop(dir, files, 1, MergeDbName(files), <<>>)
    ELSE SeparateLoop(dir, files, 1, <<>>)

NoIngest ==
    [called |-> FALSE, via |-> "", files |-> <<>>, same_db |-> PyBool(FALSE),
     branch |-> "", before |-> EmptyMap, log |-> <<>>]

\* process_uploaded_files(uploaded_files, same_db)
ProcessUploadedFiles(uploaded_files, same_db, via) ==
    LET out == Run(data, uploaded_files, Branch(same_db))
    IN /\ data' = out.data
       /\ ing' = [called |-> TRUE, via |-> via, files |-> uploaded_files,
                  same_db |-> same_db, branch |-> Branch(same_db),
                  before |-> data, log |-> out.log]
       /\ UNCHANGED <<db, last>>

\* main(): the radio's answer is what process_uploaded_files gets as same_db.
MainUpload ==
    /\ ~ing.called
    /\ \E answer \in {"Yes", "No"}, upload_files \in FileBatches :
          /\ Len(upload_files) > 0
          /\ ProcessUploadedFiles(upload_files, PyStr(answer), "main")

\* process_uploaded_files called with the boolean its signature declares.
DirectCall ==
    /\ ~ing.called
    /\ \E same_db \in BOOLEAN, uploaded_files \in FileBatches :
          ProcessUploadedFiles(uploaded_files, PyBool(same_db), "direct")

\* Data directories earlier uploads leave: none, and the merge of a
\* delimited-text file with a one-sheet workbook.
InitialDirs ==
    {EmptyMap,
     Run(EmptyMap,
         <<File(<<"r", "-", "t", ".csv">>, FALSE, <<<<"c">>>>, 1, <<>>, EmptyMap),
           File(<<"s", ".xlsx">>, FALSE, <<>>, 0, <<SheetP>>, EmptyMap)>>,
         "merge").data}

\* The executor's specification: the data directory is left alone.
Init ==
    /\ db = NoTable
    /\ last = NoCall
    /\ data = EmptyMap
    /\ ing = NoIngest

Next == Call \/ Render

Spec == Init /\ [][Next]_vars

\* The ingestion's specification: the database of Part 1 is left alone.
InitIngest ==
    /\ db = NoTable
    /\ last = NoCall
    /\ data \in InitialDirs
    /\ ing = NoIngest

NextIngest == MainUpload \/ DirectCall

SpecIngest == InitIngest /\ [][NextIngest]_vars


(***************************************************************************)
(* Properties of sql_executor.  They speak of the call just made: last     *)
(* holds its arguments, the database before it and what it returned, db    *)
(* the database file a later call opens.                                   *)
(***************************************************************************)
Returned == last.called /\ last.raised = "none"

\* The positions of the non-blank segments of raw among 1..upto, in order.
RECURSIVE NonBlankUpTo(_, _)
NonBlankUpTo(raw, upto) ==
    IF upto = 0 THEN <<>>
    ELSE IF raw[upto].kw = "" THEN NonBlankUpTo(raw, upto - 1)
    ELSE Append(NonBlankUpTo(raw, upto - 1), upto)

\* Query-shaped as the specification words it.
StartsWithSelectOrWith(s) == Upper(s.kw) \in {"SELECT", "WITH"}

QueryPositions(raw) == {i \in 1..Len(raw) : StartsWithSelectOrWith(raw[i])}

HasQuery(raw) == QueryPositions(raw) # {}

FirstQuery(raw) == CHOOSE k \in QueryPositions(raw) : \A j \in QueryPositions(raw) : k <= j

\* The database after segments 1..upto ran one after the other on d, and
\* whether each of them ran without an engine error.
RECURSIVE ApplyAll(_, _, _)
ApplyAll(d, raw, upto) ==
    IF upto = 0 THEN d
    ELSE IF raw[upto].kw = "" THEN ApplyAll(d, raw, upto - 1)
    ELSE Apply(ApplyAll(d, raw, upto - 1), raw[upto])

RECURSIVE AllSucceed(_, _, _)
AllSucceed(d, raw, upto) ==
    IF upto = 0 THEN TRUE
    ELSE /\ AllSucceed(d, raw, upto - 1)
         /\ \/ raw[upto].kw = ""
            \/ EngineError(ApplyAll(d, raw, upto - 1), raw[upto]).cls = "none"

IsPrefix(s, t) == Len(s) <= Len(t) /\ s = SubSeq(t, 1, Len(s))

\* What a call on database d with the segments raw leaves and returns.
Outcome(d, raw) ==
    LET out == Loop(Connect(d), raw, 1, <<>>)
    IN [db |-> Close(out.conn), result |-> out.result]

\* C1 (as claimed): with the first query-shaped statement at position k, exactly
\* statements 1..k are executed, in order, nothing after k has an effect, and the
\* call returns the rows and column names of statement k.
C1_AsClaimed ==
    (Returned /\ HasQuery(last.raw)) =>
        LET k == FirstQuery(last.raw)
        IN /\ last.executed = NonBlankUpTo(last.raw, k)
           /\ last.result = RowsResult(ApplyAll(last.before, last.raw, k).rows, <<"x">>)
           /\ db = Outcome(last.before, SubSeq(last.raw, 1, k)).db

\* C1 (amended): with the first query-shaped statement at position k, the
\* statements executed are a prefix of 1..k, in order, and all of 1..k when none
\* of them fails; statements after k are never executed and have no effect on
\* the database or on the result; when statements 1..k run without error and
\* statement k yields a result set, the call returns its rows and column names.
C1_ShortCircuit ==
    (Returned /\ HasQuery(last.raw)) =>
        LET k == FirstQuery(last.raw)
            cut == Outcome(last.before, SubSeq(last.raw, 1, k))
        IN /\ IsPrefix(last.executed, NonBlankUpTo(last.raw, k))
           /\ \A i \in 1..Len(last.executed) : last.executed[i] <= k
           /\ db = cut.db /\ last.result = cut.result
           /\ AllSucceed(last.before, last.raw, k) =>
                 /\ last.executed = NonBlankUpTo(last.raw, k)
                 /\ HasDescription(last.raw[k]) =>
                       last.result =
                           RowsResult(ApplyAll(last.before, last.raw, k).rows, <<"x">>)

\* "SELECT * FROM t; DELETE FROM t;" on a table of 3 rows returned the 3 rows
\* and left them in place.
C1_Witness ==
    /\ Returned
    /\ last.raw = <<Stmt("SELECT", "", 0), Stmt("DELETE", "", 0)>>
    /\ last.before = [tbl |-> TRUE, rows |-> {1, 2, 3}]
    /\ last.executed = <<1>>
    /\ last.result = RowsResult({1, 2, 3}, <<"x">>)
    /\ db = last.before

\* The engine's own error classes (sqlite3.Error).
EngineErrorClasses == {"OperationalError", "IntegrityError"}

\* C2 (as claimed): when a statement of the batch fails with an execution error
\* at position j, the batch is rolled back: the database a new call sees equals
\* the database before the call, no effect of statements 1..j-1 persists.
C2_AsClaimed ==
    (Returned /\ last.failedAt # 0 /\ last.exc \in EngineErrorClasses) =>
        (last.rollbacks = 1 /\ db = last.before)

\* C3: a batch without a query-shaped statement whose statements all succeed
\* has every statement executed in order, is committed exactly once, returns the
\* confirmation, and leaves the effect of every command for a later call.
C3_CommitAll ==
    (Returned /\ ~HasQuery(last.raw)
              /\ AllSucceed(last.before, last.raw, Len(last.raw))) =>
        /\ last.executed = NonBlankUpTo(last.raw, Len(last.raw))
        /\ last.commits = 1 /\ last.rollbacks = 0
        /\ last.result = OkResult
        /\ db = ApplyAll(last.before, last.raw, Len(last.raw))

\* Two inserts in one batch are both there for the next call.
C3_Witness ==
    /\ Returned
    /\ last.raw = <<Stmt("INSERT", "", 1), Stmt("INSERT", "", 2)>>
    /\ last.before = [tbl |-> TRUE, rows |-> {}]
    /\ last.result = OkResult
    /\ db = [tbl |-> TRUE, rows |-> {1, 2}]

\* C4 (as claimed): every call returns an ExecutionResult; no exception
\* crosses the boundary of sql_executor.
C4_AsClaimed ==
    last.called => (last.raised = "none" /\ last.result.kind \in {"rows", "ok", "error"})

\* C5 (as claimed): every engine execution error is rolled back and returned
\* with the prefix "SQL Error: "; the generic prefix is used only for failures
\* that are not engine execution errors.
C5_AsClaimed ==
    (Returned /\ last.result.kind = "error") =>
        /\ last.exc \in EngineErrorClasses =>
              (last.rollbacks = 1 /\ last.result.prefix = "SQL Error: ")
        /\ last.result.prefix = "An error occurred: " => last.exc \notin EngineErrorClasses

\* The commands before position k whose first keyword makes Python open a
\* transaction.
DmlBefore(raw, k) == {i \in 1..(k - 1) : IsDml(raw[i])}

Without(files, i) == SubSeq(files, 1, i - 1) \o SubSeq(files, i + 1, Len(files))

\* The directory a run on files leaves; with no file there is no run.
RunData(dir, files, branch) == IF files = <<>> THEN dir ELSE Run(dir, files, branch).data

\* The directory file j of the run started from.
DirBefore(j) == IF j = 1 THEN ing.before ELSE ing.log[j - 1].after

\* Entry j of the log is what processing file j at its turn gives.
ProcessedInTurn(j) ==
    ing.log[j] = Entry(IF ing.branch = "merge"
                       THEN MergeFile(DirBefore(j), ing.files[j], MergeDbName(ing.files))
                       ELSE SeparateFile(DirBefore(j), ing.files[j]))

Failed(i) == i <= Len(ing.log) /\ ing.log[i].kind = "error"

AllProcessed ==
    /\ Len(ing.log) = Len(ing.files)
    /\ \A j \in 1..Len(ing.files) : ProcessedInTurn(j)
    /\ data = DirBefore(Len(ing.files) + 1)

\* C6 (as claimed): in both modes, a file that cannot be parsed is reported, the
\* files after it are processed in order, and what is written is what the batch
\* without that file writes.
C6_AsClaimed ==
    ing.called =>
        \A i \in 1..Len(ing.files) :
            ing.files[i].bad =>
                /\ Failed(i)
                /\ AllProcessed
                /\ data = RunData(ing.before, Without(ing.files, i), ing.branch)

\* C6 (amended): in both modes, a file whose processing fails is reported and
\* the files after it are processed in order; what is written is what the batch
\* without that file writes in separate mode, and in merge mode when the file is
\* not the first of the batch and saved no table before it failed.
C6_Isolation ==
    ing.called =>
        \A i \in 1..Len(ing.files) :
            /\ ing.files[i].bad => Failed(i)
            /\ Failed(i) =>
                  /\ AllProcessed
                  /\ (ing.branch = "separate" \/ (i > 1 /\ ing.log[i].saved = 0)) =>
                        data = RunData(ing.before, Without(ing.files, i), ing.branch)

\* A merge of three files whose second cannot be parsed: the third is still
\* written, into the database named after the first.
C6_Witness ==
    /\ ing.called /\ ing.branch = "merge" /\ Len(ing.files) = 3
    /\ ing.before = EmptyMap
    /\ ing.files[1] = File(<<"s", ".csv">>, FALSE, <<<<"c">>>>, 1, <<>>, EmptyMap)
    /\ ing.files[2].bad /\ ing.files[2].name = <<"r", "-", "t", ".csv">>
    /\ ing.files[3] = File(<<"s", ".xlsx">>, FALSE, <<>>, 0, <<SheetP, SheetU>>, EmptyMap)
    /\ [j \in 1..3 |-> ing.log[j].kind] = <<"success", "error", "success">>
    /\ DOMAIN data = {<<"s", ".sqlite">>}
    /\ DOMAIN data[<<"s", ".sqlite">>] = {<<"s">>, <<"p">>, <<"u">>}

IsWorkbook(f) == EndsWith(f.name, {".xls", ".xlsx"}) /\ ~f.bad

IsCsv(f) == EndsWith(f.name, {".csv"}) /\ ~f.bad

\* C7 (as claimed): in merge mode a workbook leaves, for every one of its
\* sheets, a table in the merge database named after the sheet with hyphens
\* replaced by underscores and holding that sheet's data.
C7_AsClaimed ==
    (ing.called /\ ing.branch = "merge") =>
        \A i \in 1..Len(ing.log) :
            IsWorkbook(ing.files[i]) =>
                LET tables == TablesOf(ing.log[i].after, DbFile(MergeDbName(ing.files)))
                    sheets == ing.files[i].sheets
                IN \A k \in DOMAIN sheets :
                      /\ Normalize(sheets[k].name) \in DOMAIN tables
                      /\ tables[Normalize(sheets[k].name)] =
                            Frame(sheets[k].cols, sheets[k].nrows)

\* C8 (as claimed): in merge mode a delimited-text file of R rows and C header
\* columns leaves a table named after the file, with R rows and C columns named
\* after the header with hyphens replaced by underscores.
C8_AsClaimed ==
    (ing.called /\ ing.branch = "merge") =>
        \A i \in 1..Len(ing.log) :
            IsCsv(ing.files[i]) =>
                LET tables == TablesOf(ing.log[i].after, DbFile(MergeDbName(ing.files)))
                    name == Normalize(Splitext(ing.files[i].name))
                    f == ing.files[i]
                IN /\ name \in DOMAIN tables
                   /\ tables[name].nrows = f.nrows
                   /\ Len(tables[name].cols) = Len(f.cols)
                   /\ tables[name].cols = [j \in DOMAIN f.cols |-> Normalize(f.cols[j])]

\* C8 (amended): in merge mode a delimited-text file of R rows and C header
\* columns leaves, in place of any table of that name, a table named after the
\* file name without extension, hyphens replaced by underscores, with exactly R
\* rows and C columns that carry the header names in order as they are read,
\* hyphens kept; the other tables of the database stay as they were.
C8_CsvTable ==
    (ing.called /\ ing.branch = "merge") =>
        \A i \in 1..Len(ing.log) :
            IsCsv(ing.files[i]) =>
                LET file == DbFile(MergeDbName(ing.files))
                    tables == TablesOf(ing.log[i].after, file)
                    old == TablesOf(DirBefore(i), file)
                    name == Normalize(Splitext(ing.files[i].name))
                    f == ing.files[i]
                IN /\ name \in DOMAIN tables
                   /\ tables[name].nrows = f.nrows
                   /\ Len(tables[name].cols) = Len(f.cols)
                   /\ tables[name].cols = f.cols
                   /\ DOMAIN tables = DOMAIN old \cup {name}
                   /\ \A t \in DOMAIN old : t # name => tables[t] = old[t]

\* r-t.csv with a hyphen in a column name replaces the table r_t of an earlier
\* upload; the table p beside it stays.
C8_Witness ==
    /\ ing.called /\ ing.branch = "merge"
    /\ ing.files = <<File(<<"r", "-", "t", ".csv">>, FALSE,
                          <<<<"c", "-", "d">>, <<"e">>>>, 1, <<>>, EmptyMap)>>
    /\ <<"r", "_", "t", ".sqlite">> \in DOMAIN ing.before
    /\ ing.before[<<"r", "_", "t", ".sqlite">>][<<"r", "_", "t">>] = Frame(<<<<"c">>>>, 1)
    /\ data[<<"r", "_", "t", ".sqlite">>][<<"r", "_", "t">>] =
          Frame(<<<<"c", "-", "d">>, <<"e">>>>, 1)
    /\ data[<<"r", "_", "t", ".sqlite">>][<<"p">>] = Frame(<<<<"c">>>>, 1)

\* C9 (as claimed): the answer "No" given to main() runs the separate branch,
\* one database per file with one table each; the merge branch runs only for
\* the answer "Yes".
C9_AsClaimed ==
    (ing.called /\ ing.via = "main") =>
        /\ ing.same_db.s = "No" =>
              (ing.branch = "separate"
               /\ data = RunData(ing.before, ing.files, "separate"))
        /\ ing.branch = "merge" => ing.same_db.s = "Yes"

====
